---- MODULE Spec2Model ----
(***************************************************************************)
(* Model of GrantStmt.Exec (stmt/stmts/grant.go): the execution of a       *)
(* parsed GRANT statement against the privilege catalog tables mysql.user  *)
(* and mysql.db.  Every session runs Exec as a sequence of steps: the      *)
(* user-existence check, the database-scope check-and-init (existence scan *)
(* followed, if needed, by an INSERT), and one UPDATE per privilege.       *)
(* Strings the code splits are sequences of symbols.                       *)
(***************************************************************************)
EXTENDS Integers, Sequences, FiniteSets, TLC

\* ---------------------------------------------------------------- bounds
MaxPrivs == 2      \* longest s.Privs list
MaxUsers == 2      \* longest s.Users list

SeqsUpTo(S, n) == UNION {[1..k -> S] : k \in 0..n}
NonEmptySeqsUpTo(S, n) == UNION {[1..k -> S] : k \in 1..n}

\* ------------------------------------------------- privilege definitions
AllPriv == "AllPriv"
SelectPriv == "SelectPriv"
InsertPriv == "InsertPriv"
CreateUserPriv == "CreateUserPriv"
OtherPriv == "OtherPriv"        \* a PrivilegeType with no entry in Priv2UserCol

\* the privilege kinds statements are drawn from: ALL, a kind of both scopes,
\* a kind of global scope only, a kind without a column
PrivKinds == {AllPriv, SelectPriv, CreateUserPriv, OtherPriv}

\* mysql.Priv2UserCol: privilege kind -> column name
Priv2UserCol ==
  [k \in {SelectPriv, InsertPriv, CreateUserPriv} |->
     CASE k = SelectPriv -> "Select_priv"
       [] k = InsertPriv -> "Insert_priv"
       [] k = CreateUserPriv -> "Create_user_priv"]

\* mysql.AllDBPrivs: the privileges that exist at database scope
AllDBPrivs == <<SelectPriv, InsertPriv>>

\* privilege columns of mysql.user and of mysql.db
UserCols == {Priv2UserCol[k] : k \in DOMAIN Priv2UserCol}
DBCols == {Priv2UserCol[AllDBPrivs[i]] : i \in 1..Len(AllDBPrivs)}

\* ------------------------------------------------------------ grant level
GrantLevelNone == "GrantLevelNone"
GrantLevelGlobal == "GrantLevelGlobal"
GrantLevelDB == "GrantLevelDB"
GrantLevelTable == "GrantLevelTable"

\* ------------------------------------------------------------ error kinds
ErrUnknownUser == "Unknown user"
ErrMissDB == "Miss DB name in grant db scope privilege."
ErrUnknownSchema == "Unknown schema name"
ErrUnknownPriv == "Unknown priv"
ErrUnknownDBPriv == "Unknown db privilege"
ErrUnknownLevel == "Unknown grant level"
ErrUnknownField == "unknown field"          \* raised by the UPDATE statement
ErrPlan == "plan error"                     \* raised by Plan
ErrNext == "next error"                     \* raised by Next
PanicIndex == "panic: index out of range"

Errors == {ErrUnknownUser, ErrMissDB, ErrUnknownSchema, ErrUnknownPriv,
           ErrUnknownDBPriv, ErrUnknownLevel, ErrUnknownField, ErrPlan,
           ErrNext, PanicIndex}

\* ------------------------------------------------------ strings.Split
RECURSIVE Split(_, _)
Split(s, sep) ==
  IF \A i \in 1..Len(s) : s[i] # sep
  THEN <<s>>
  ELSE LET i == CHOOSE j \in 1..Len(s) :
                  s[j] = sep /\ \A h \in 1..(j - 1) : s[h] # sep
       IN <<SubSeq(s, 1, i - 1)>> \o Split(SubSeq(s, i + 1, Len(s)), sep)

\* ------------------------------------------------------------- universes
Alice == <<"alice", "@", "%">>
Bob == <<"bob", "@", "localhost">>
Eve == <<"eve", "@", "%">>        \* has no row in mysql.user
Carol == <<"carol", "@", "%">>    \* has privileges already
Principals == {Alice, Eve}

\* model.NewCIStr: O is the name as written, L its lower-case form
Lower(n) == IF n = "DB1" THEN "db1" ELSE n
NewCIStr(n) == [O |-> n, L |-> Lower(n)]

\* the schemas of the information schema (DBInfo records)
Schemas == {[Name |-> NewCIStr("db1")]}

DBNames == {"", "db1", "DB1", "nodb"}
CurSchemas == {"", "db1", "nodb"}

Levels ==
  {[Level |-> GrantLevelDB, DBName |-> n] : n \in DBNames}
  \cup {[Level |-> GrantLevelTable, DBName |-> n] : n \in {"", "db1"}}
  \cup {[Level |-> l, DBName |-> ""] : l \in {GrantLevelGlobal, GrantLevelNone}}

\* GrantStmt values handed to Exec; a statement names at least one user
Requests ==
  [Privs : SeqsUpTo(PrivKinds, MaxPrivs),
   Level : Levels,
   Users : NonEmptySeqsUpTo(Principals, MaxUsers)]

\* the current schema of the calling session; Exec reads it only at database
\* level and only when the statement names no database
CurSchemasFor(req) ==
  IF req.Level.Level = GrantLevelDB /\ req.Level.DBName = ""
  THEN CurSchemas ELSE {""}

NoStmt == [Privs |-> <<>>, Level |-> [Level |-> GrantLevelNone, DBName |-> ""],
           Users |-> <<>>]

Sessions == {1, 2}

\* ------------------------------------------------------- catalog tables
\* A table is a sequence of rows (no uniqueness constraint); a row of
\* mysql.user is [Host, User, cols], a row of mysql.db is [Host, User, DB, cols].
DefaultCols(cols) == [c \in cols |-> "N"]

\* composeUserTableFilter: Host = host AND User = name
composeUserTableFilter(name, host) == [Host |-> host, User |-> name]

\* mutation: the DB column is not part of the filter
composeDBTableFilter_NoDB(name, host, db) == composeUserTableFilter(name, host)

\* composeDBTableFilter: the user filter AND DB = db
composeDBTableFilter(name, host, db) ==
  [Host |-> host, User |-> name, DB |-> db]

\* evaluation of a filter on a row: equality on every column of the filter
Matches(row, filter) == \A f \in DOMAIN filter : row[f] = filter[f]

\* userExists: a scan of mysql.user under the user filter yields a row
userExists(tbl, name, host) ==
  \E i \in 1..Len(tbl) : Matches(tbl[i], composeUserTableFilter(name, host))

\* mutation: the scan never yields a row
dbUserExists_NoRow(tbl, name, host, db) == FALSE

\* mutation: the scan looks at the first row of the table only
dbUserExists_FirstRowOnly(tbl, name, host, db) ==
  /\ Len(tbl) > 0
  /\ Matches(tbl[1], composeDBTableFilter(name, host, db))

\* dbUserExists: a scan of mysql.db under the db filter yields a row
dbUserExists(tbl, name, host, db) ==
  \E i \in 1..Len(tbl) : Matches(tbl[i], composeDBTableFilter(name, host, db))

\* the calls of dbUserExists that can return an error
NoFault == "none"
PlanFault == "r.Plan"
WherePlanFault == "where.Plan"
NextFault == "p.Next"
Faults == {NoFault, PlanFault, WherePlanFault, NextFault}

\* the plans dbUserExists obtains: the table plan and the filter plan, whose
\* source the table plan is
TablePlan == "TablePlan"
FilterPlan == "FilterPlan"

\* Plan.Close: the plan and the plan it reads from are released
ClosePlan(opened, plan) ==
  opened \ (IF plan = FilterPlan THEN {FilterPlan, TablePlan} ELSE {plan})

\* dbUserExists with the outcome f of its calls: the result, the error and
\* the plans still open when it returns
dbUserExistsRun(tbl, name, host, db, f) ==
  IF f = PlanFault
  THEN [ok |-> FALSE, err |-> ErrPlan, open |-> {}]
  ELSE IF f = WherePlanFault
       THEN [ok |-> FALSE, err |-> ErrPlan, open |-> {TablePlan}]
       ELSE LET closed == ClosePlan({TablePlan, FilterPlan}, FilterPlan)
            IN IF f = NextFault
               THEN [ok |-> FALSE, err |-> ErrNext, open |-> closed]
               ELSE [ok |-> dbUserExists(tbl, name, host, db),
                     err |-> "nil", open |-> closed]

\* InsertIntoStmt.Exec for ColNames (Host, User, DB): one row is appended,
\* every other column takes its default
InsertExec(tbl, host, user, db) ==
  Append(tbl, [Host |-> host, User |-> user, DB |-> db,
               cols |-> DefaultCols(DBCols)])

\* UpdateStmt.Exec: an assignment to a column the table does not have fails
\* the statement; otherwise every row matching Where takes the assignments.
UpdateExec(tbl, tblCols, asgns, where) ==
  IF \E i \in 1..Len(asgns) : asgns[i].ColName \notin tblCols
  THEN [err |-> ErrUnknownField, tbl |-> tbl]
  ELSE [err |-> "nil",
        tbl |-> [r \in 1..Len(tbl) |->
                   IF Matches(tbl[r], where)
                   THEN [tbl[r] EXCEPT !.cols =
                           [c \in tblCols |->
                              IF \E i \in 1..Len(asgns) : asgns[i].ColName = c
                              THEN asgns[CHOOSE i \in 1..Len(asgns) :
                                           asgns[i].ColName = c].Expr
                              ELSE @[c]]]
                   ELSE tbl[r]]]

\* mutation: the assigned value is 'N'
Assignment_N(col) == [ColName |-> col, Expr |-> "N"]

\* expression.Assignment{ColName: col, Expr: Value{"Y"}}
Assignment(col) == [ColName |-> col, Expr |-> "Y"]

\* an enumeration of a finite set (Go's map iteration order is unspecified)
RECURSIVE SetToSeq(_)
SetToSeq(S) ==
  IF S = {} THEN <<>>
  ELSE LET x == CHOOSE y \in S : TRUE IN <<x>> \o SetToSeq(S \ {x})

\* mutation: ALL expands to the database-level privileges only
composeGlobalPrivUpdate_DBSet(priv) ==
  IF priv = AllPriv
  THEN [err |-> "nil",
        asgns |-> [i \in 1..Len(AllDBPrivs) |->
                     Assignment(Priv2UserCol[AllDBPrivs[i]])]]
  ELSE IF priv \notin DOMAIN Priv2UserCol
       THEN [err |-> ErrUnknownPriv, asgns |-> <<>>]
       ELSE [err |-> "nil", asgns |-> <<Assignment(Priv2UserCol[priv])>>]

\* mutation: a named privilege assigns every column of the map, as ALL does
composeGlobalPrivUpdate_Wide(priv) ==
  IF priv # AllPriv /\ priv \notin DOMAIN Priv2UserCol
  THEN [err |-> ErrUnknownPriv, asgns |-> <<>>]
  ELSE [err |-> "nil",
        asgns |-> LET ks == SetToSeq(DOMAIN Priv2UserCol)
                  IN [i \in 1..Len(ks) |-> Assignment(Priv2UserCol[ks[i]])]]

\* composeGlobalPrivUpdate
composeGlobalPrivUpdate(priv) ==
  IF priv = AllPriv
  THEN [err |-> "nil",
        asgns |-> LET ks == SetToSeq(DOMAIN Priv2UserCol)
                  IN [i \in 1..Len(ks) |-> Assignment(Priv2UserCol[ks[i]])]]
  ELSE IF priv \notin DOMAIN Priv2UserCol
       THEN [err |-> ErrUnknownPriv, asgns |-> <<>>]
       ELSE [err |-> "nil", asgns |-> <<Assignment(Priv2UserCol[priv])>>]

\* mutation: ALL expands over every privilege of the column map
composeDBPrivUpdate_GlobalSet(priv) ==
  IF priv = AllPriv
  THEN [err |-> "nil",
        asgns |-> [i \in 1..Cardinality(UserCols) |->
                     Assignment(SetToSeq(UserCols)[i])]]
  ELSE IF priv \notin DOMAIN Priv2UserCol
       THEN [err |-> ErrUnknownPriv, asgns |-> <<>>]
       ELSE [err |-> "nil", asgns |-> <<Assignment(Priv2UserCol[priv])>>]

\* composeDBPrivUpdate
composeDBPrivUpdate(priv) ==
  IF priv = AllPriv
  THEN IF \E i \in 1..Len(AllDBPrivs) : AllDBPrivs[i] \notin DOMAIN Priv2UserCol
       THEN [err |-> ErrUnknownDBPriv, asgns |-> <<>>]
       ELSE [err |-> "nil",
             asgns |-> [i \in 1..Len(AllDBPrivs) |->
                          Assignment(Priv2UserCol[AllDBPrivs[i]])]]
  ELSE IF priv \notin DOMAIN Priv2UserCol
       THEN [err |-> ErrUnknownPriv, asgns |-> <<>>]
       ELSE [err |-> "nil", asgns |-> <<Assignment(Priv2UserCol[priv])>>]

\* InfoSchema.SchemaByName: case-insensitive lookup
SchemaByName(schema) == {d \in Schemas : d.Name.L = schema.L}

\* mutation: an empty name is looked up like any other name
getTargetSchema_NoEmptyCheck(s, cur) ==
  LET dbName == IF s.Level.DBName = "" THEN cur ELSE s.Level.DBName
  IN IF SchemaByName(NewCIStr(dbName)) = {}
     THEN [err |-> ErrUnknownSchema, db |-> ""]
     ELSE [err |-> "nil",
           db |-> (CHOOSE d \in SchemaByName(NewCIStr(dbName)) : TRUE).Name.O]

\* mutation: the name is taken as given, without the lookup
getTargetSchema_NoLookup(s, cur) ==
  LET dbName == IF s.Level.DBName = "" THEN cur ELSE s.Level.DBName
  IN IF dbName = ""
     THEN [err |-> ErrMissDB, db |-> ""]
     ELSE [err |-> "nil", db |-> dbName]

\* GrantStmt.getTargetSchema
getTargetSchema(s, cur) ==
  LET dbName == IF s.Level.DBName = "" THEN cur ELSE s.Level.DBName
  IN IF dbName = ""
     THEN [err |-> ErrMissDB, db |-> ""]
     ELSE IF SchemaByName(NewCIStr(dbName)) = {}
          THEN [err |-> ErrUnknownSchema, db |-> ""]
          ELSE [err |-> "nil",
                db |-> (CHOOSE d \in SchemaByName(NewCIStr(dbName)) : TRUE).Name.O]

\* ------------------------------------------------------------------ state
VARIABLES
  userTable,   \* rows of mysql.user
  dbTable,     \* rows of mysql.db
  pc,          \* per session: position inside Exec
  stmt,        \* per session: the GrantStmt being executed
  curSchema,   \* per session: db.GetCurrentSchema(ctx)
  ui,          \* per session: index of the current user in s.Users
  pi,          \* per session: index of the current privilege in s.Privs
  target,      \* per session: db.Name.O held between the scan and the INSERT
  result,      \* per session: error returned by Exec ("nil" on success)
  pre,         \* per session: the catalog when Exec was entered (history)
  log,         \* per session: statements Exec has executed so far (history)
  open,        \* per session: plans dbUserExists left open in this Exec
  again,       \* per session: this Exec repeats the statement that just
               \* returned success (history)
  overlapped   \* some Exec was entered while another session was inside
               \* Exec (history)

vars == <<userTable, dbTable, pc, stmt, curSchema, ui, pi, target, result,
          pre, log, open, again, overlapped>>

CarolCols == [c \in UserCols |-> IF c = "Select_priv" THEN "Y" ELSE "N"]

InitUserTable ==
  << [Host |-> <<"%">>, User |-> <<"alice">>, cols |-> DefaultCols(UserCols)],
     [Host |-> <<"localhost">>, User |-> <<"bob">>,
      cols |-> DefaultCols(UserCols)],
     [Host |-> <<"%">>, User |-> <<"carol">>, cols |-> CarolCols] >>

InitDBTable ==
  << [Host |-> <<"%">>, User |-> <<"carol">>, DB |-> "db1",
      cols |-> [c \in DBCols |-> IF c = "Insert_priv" THEN "Y" ELSE "N"]],
     [Host |-> <<"%">>, User |-> <<"alice">>, DB |-> "olddb",
      cols |-> [c \in DBCols |-> IF c = "Select_priv" THEN "Y" ELSE "N"]] >>

Init ==
  /\ userTable = InitUserTable
  /\ dbTable = InitDBTable
  /\ pc = [p \in Sessions |-> "idle"]
  /\ stmt = [p \in Sessions |-> NoStmt]
  /\ curSchema = [p \in Sessions |-> ""]
  /\ ui = [p \in Sessions |-> 1]
  /\ pi = [p \in Sessions |-> 1]
  /\ target = [p \in Sessions |-> ""]
  /\ result = [p \in Sessions |-> "none"]
  /\ pre = [p \in Sessions |-> [user |-> <<>>, db |-> <<>>]]
  /\ log = [p \in Sessions |-> <<>>]
  /\ open = [p \in Sessions |-> {}]
  /\ again = [p \in Sessions |-> FALSE]
  /\ overlapped = FALSE

\* ------------------------------------------------------ control of Exec
\* position reached when the body of the user loop ends for user u
AfterUser(s, u) ==
  IF u < Len(s.Users)
  THEN [pc |-> "user", ui |-> u + 1, pi |-> 1, result |-> "none"]
  ELSE [pc |-> "done", ui |-> u, pi |-> 1, result |-> "nil"]

\* position reached after privilege k of user u was granted (k = 0: before
\* the first one)
AfterPriv(s, u, k) ==
  IF k < Len(s.Privs)
  THEN [pc |-> "priv", ui |-> u, pi |-> k + 1, result |-> "none"]
  ELSE AfterUser(s, u)

Goto(p, pos) ==
  /\ pc' = [pc EXCEPT ![p] = pos.pc]
  /\ ui' = [ui EXCEPT ![p] = pos.ui]
  /\ pi' = [pi EXCEPT ![p] = pos.pi]
  /\ result' = [result EXCEPT ![p] = pos.result]

\* return of an error: Exec stops where it is
Fail(p, e) ==
  Goto(p, [pc |-> "done", ui |-> ui[p], pi |-> pi[p], result |-> e])

\* ------------------------------------------------------------- statements
\* GrantStmt.grantGlobalPriv
grantGlobalPriv(priv, user, utbl, u, k) ==
  LET a == composeGlobalPrivUpdate(priv)
      strs == Split(user, "@")
  IN IF a.err # "nil"
     THEN [err |-> a.err, tbl |-> utbl, stmts |-> <<>>]
     ELSE IF Len(strs) < 2
          THEN [err |-> PanicIndex, tbl |-> utbl, stmts |-> <<>>]
          ELSE LET where == composeUserTableFilter(strs[1], strs[2])
                   r == UpdateExec(utbl, UserCols, a.asgns, where)
               IN [err |-> r.err, tbl |-> r.tbl,
                   stmts |-> << [op |-> "UPDATE", tbl |-> "user",
                                 where |-> where,
                                 cols |-> {a.asgns[i].ColName :
                                             i \in 1..Len(a.asgns)},
                                 ui |-> u, pi |-> k, err |-> r.err] >>]

\* GrantStmt.grantDBPriv
grantDBPriv(s, cur, priv, user, dtbl, u, k) ==
  LET t == getTargetSchema(s, cur)
      a == composeDBPrivUpdate(priv)
      strs == Split(user, "@")
  IN IF t.err # "nil"
     THEN [err |-> t.err, tbl |-> dtbl, stmts |-> <<>>]
     ELSE IF a.err # "nil"
          THEN [err |-> a.err, tbl |-> dtbl, stmts |-> <<>>]
          ELSE IF Len(strs) < 2
               THEN [err |-> PanicIndex, tbl |-> dtbl, stmts |-> <<>>]
               ELSE LET where == composeDBTableFilter(strs[1], strs[2], t.db)
                        r == UpdateExec(dtbl, DBCols, a.asgns, where)
                    IN [err |-> r.err, tbl |-> r.tbl,
                        stmts |-> << [op |-> "UPDATE", tbl |-> "db",
                                      where |-> where,
                                      cols |-> {a.asgns[i].ColName :
                                                  i \in 1..Len(a.asgns)},
                                      ui |-> u, pi |-> k, err |-> r.err] >>]

\* mutation: the privilege is validated as at database level
grantTablePriv_Validates(priv, user) ==
  [err |-> composeDBPrivUpdate(priv).err, stmts |-> <<>>]

\* GrantStmt.grantTablePriv
grantTablePriv(priv, user) == [err |-> "nil", stmts |-> <<>>]

\* mutation: a level without a case is granted at global level
grantPriv_DefaultGlobal(s, cur, priv, user, utbl, dtbl, u, k) ==
  CASE s.Level.Level = GrantLevelDB ->
         LET g == grantDBPriv(s, cur, priv, user, dtbl, u, k)
         IN [err |-> g.err, user |-> utbl, db |-> g.tbl, stmts |-> g.stmts]
    [] s.Level.Level = GrantLevelTable ->
         LET g == grantTablePriv(priv, user)
         IN [err |-> g.err, user |-> utbl, db |-> dtbl, stmts |-> g.stmts]
    [] OTHER ->
         LET g == grantGlobalPriv(priv, user, utbl, u, k)
         IN [err |-> g.err, user |-> g.tbl, db |-> dtbl, stmts |-> g.stmts]

\* GrantStmt.grantPriv: the effect on both tables
grantPriv(s, cur, priv, user, utbl, dtbl, u, k) ==
  CASE s.Level.Level = GrantLevelGlobal ->
         LET g == grantGlobalPriv(priv, user, utbl, u, k)
         IN [err |-> g.err, user |-> g.tbl, db |-> dtbl, stmts |-> g.stmts]
    [] s.Level.Level = GrantLevelDB ->
         LET g == grantDBPriv(s, cur, priv, user, dtbl, u, k)
         IN [err |-> g.err, user |-> utbl, db |-> g.tbl, stmts |-> g.stmts]
    [] s.Level.Level = GrantLevelTable ->
         LET g == grantTablePriv(priv, user)
         IN [err |-> g.err, user |-> utbl, db |-> dtbl, stmts |-> g.stmts]
    [] OTHER ->
         [err |-> ErrUnknownLevel, user |-> utbl, db |-> dtbl, stmts |-> <<>>]

\* ---------------------------------------------------------------- actions
\* Exec is entered with a statement of reqs in a session with a current
\* schema of curs
Call(p, reqs, curs) ==
  /\ pc[p] = "idle"
  /\ \E req \in reqs :
       \E cur \in curs \cap CurSchemasFor(req) :
         /\ stmt' = [stmt EXCEPT ![p] = req]
         /\ curSchema' = [curSchema EXCEPT ![p] = cur]
         /\ Goto(p, AfterUser(req, 0))
  /\ target' = [target EXCEPT ![p] = ""]
  /\ pre' = [pre EXCEPT ![p] = [user |-> userTable, db |-> dbTable]]
  /\ log' = [log EXCEPT ![p] = <<>>]
  /\ open' = [open EXCEPT ![p] = {}]
  /\ again' = [again EXCEPT ![p] = FALSE]
  /\ overlapped' = (overlapped \/ \E q \in Sessions \ {p} : pc[q] # "idle")
  /\ UNCHANGED <<userTable, dbTable>>

\* mutation: the database-level entry is initialised before the user check
UserCheck_InitFirst(p) ==
  /\ pc[p] = "user"
  /\ LET s == stmt[p]
         strs == Split(s.Users[ui[p]], "@")
         t == getTargetSchema(s, curSchema[p])
         early == /\ s.Level.Level = GrantLevelDB
                  /\ t.err = "nil"
                  /\ ~dbUserExists(dbTable, strs[1], strs[2], t.db)
     IN /\ IF early
           THEN /\ dbTable' = InsertExec(dbTable, strs[2], strs[1], t.db)
                /\ log' = [log EXCEPT ![p] =
                             Append(@, [op |-> "INSERT", tbl |-> "db",
                                        where |-> composeDBTableFilter(
                                                    strs[1], strs[2], t.db),
                                        cols |-> {}, ui |-> ui[p], pi |-> 0,
                                        err |-> "nil"])]
           ELSE UNCHANGED <<dbTable, log>>
        /\ IF ~userExists(userTable, strs[1], strs[2])
           THEN Fail(p, ErrUnknownUser)
           ELSE IF s.Level.Level = GrantLevelDB
                THEN Goto(p, [pc |-> "init", ui |-> ui[p], pi |-> 1,
                              result |-> "none"])
                ELSE Goto(p, AfterPriv(s, ui[p], 0))
  /\ UNCHANGED <<userTable, stmt, curSchema, target, pre, open, again,
                 overlapped>>

\* mutation: the entry is initialised at table level as at database level
UserCheck_InitTableLevel(p) ==
  /\ pc[p] = "user"
  /\ LET s == stmt[p]
         strs == Split(s.Users[ui[p]], "@")
     IN IF Len(strs) < 2
        THEN Fail(p, PanicIndex)
        ELSE IF ~userExists(userTable, strs[1], strs[2])
             THEN Fail(p, ErrUnknownUser)
             ELSE IF s.Level.Level \in {GrantLevelDB, GrantLevelTable}
                  THEN Goto(p, [pc |-> "init", ui |-> ui[p], pi |-> 1,
                                result |-> "none"])
                  ELSE Goto(p, AfterPriv(s, ui[p], 0))
  /\ UNCHANGED <<userTable, dbTable, stmt, curSchema, target, pre, log,
                 open, again, overlapped>>

\* top of the user loop: split the principal and check that the user exists
UserCheck(p) ==
  /\ pc[p] = "user"
  /\ LET s == stmt[p]
         strs == Split(s.Users[ui[p]], "@")
     IN IF Len(strs) < 2
        THEN Fail(p, PanicIndex)
        ELSE IF ~userExists(userTable, strs[1], strs[2])
             THEN Fail(p, ErrUnknownUser)
             ELSE IF s.Level.Level = GrantLevelDB
                  THEN Goto(p, [pc |-> "init", ui |-> ui[p], pi |-> 1,
                                result |-> "none"])
                  ELSE Goto(p, AfterPriv(s, ui[p], 0))
  /\ UNCHANGED <<userTable, dbTable, stmt, curSchema, target, pre, log,
                 open, again, overlapped>>

\* mutation: the row is inserted whatever the scan of mysql.db yields
CheckDBPriv_AlwaysInsert(p, faults) ==
  /\ pc[p] = "init"
  /\ LET s == stmt[p]
         t == getTargetSchema(s, curSchema[p])
     IN IF t.err # "nil"
        THEN Fail(p, t.err) /\ UNCHANGED target
        ELSE /\ Goto(p, [pc |-> "insert", ui |-> ui[p], pi |-> 1,
                         result |-> "none"])
             /\ target' = [target EXCEPT ![p] = t.db]
  /\ UNCHANGED <<userTable, dbTable, stmt, curSchema, pre, log, open, again,
                 overlapped>>

\* mutation: the first privilege is validated before the scan of mysql.db
CheckDBPriv_ValidatesFirst(p, faults) ==
  /\ pc[p] = "init"
  /\ LET s == stmt[p]
         strs == Split(s.Users[ui[p]], "@")
         t == getTargetSchema(s, curSchema[p])
         v == IF s.Privs = <<>> THEN "nil"
              ELSE composeDBPrivUpdate(s.Privs[1]).err
     IN IF t.err # "nil"
        THEN Fail(p, t.err) /\ UNCHANGED <<target, open>>
        ELSE IF v # "nil"
             THEN Fail(p, v) /\ UNCHANGED <<target, open>>
             ELSE \E f \in faults :
                    LET r == dbUserExistsRun(dbTable, strs[1], strs[2], t.db, f)
                    IN /\ open' = [open EXCEPT ![p] = r.open]
                       /\ IF r.err # "nil"
                          THEN Fail(p, r.err) /\ UNCHANGED target
                          ELSE IF r.ok
                               THEN /\ Goto(p, AfterPriv(s, ui[p], 0))
                                    /\ UNCHANGED target
                               ELSE /\ Goto(p, [pc |-> "insert", ui |-> ui[p],
                                                pi |-> 1, result |-> "none"])
                                    /\ target' = [target EXCEPT ![p] = t.db]
  /\ UNCHANGED <<userTable, dbTable, stmt, curSchema, pre, log, again,
                 overlapped>>

\* checkAndInitDBPriv up to the decision to insert: resolve the schema and
\* scan mysql.db for the (user, host, db) entry
\* The calls of dbUserExists end as one of faults says.
CheckDBPriv(p, faults) ==
  /\ pc[p] = "init"
  /\ LET s == stmt[p]
         strs == Split(s.Users[ui[p]], "@")
         t == getTargetSchema(s, curSchema[p])
     IN IF t.err # "nil"
        THEN Fail(p, t.err) /\ UNCHANGED <<target, open>>
        ELSE \E f \in faults :
               LET r == dbUserExistsRun(dbTable, strs[1], strs[2], t.db, f)
               IN /\ open' = [open EXCEPT ![p] = r.open]
                  /\ IF r.err # "nil"
                     THEN Fail(p, r.err) /\ UNCHANGED target
                     ELSE IF r.ok
                          THEN /\ Goto(p, AfterPriv(s, ui[p], 0))
                               /\ UNCHANGED target
                          ELSE /\ Goto(p, [pc |-> "insert", ui |-> ui[p],
                                           pi |-> 1, result |-> "none"])
                               /\ target' = [target EXCEPT ![p] = t.db]
  /\ UNCHANGED <<userTable, dbTable, stmt, curSchema, pre, log, again,
                 overlapped>>

\* initDBPrivEntry: INSERT INTO mysql.db (Host, User, DB)
InitDBPrivEntry(p) ==
  /\ pc[p] = "insert"
  /\ LET s == stmt[p]
         strs == Split(s.Users[ui[p]], "@")
     IN /\ dbTable' = InsertExec(dbTable, strs[2], strs[1], target[p])
        /\ log' = [log EXCEPT ![p] =
                     Append(@, [op |-> "INSERT", tbl |-> "db",
                                where |-> composeDBTableFilter(
                                            strs[1], strs[2], target[p]),
                                cols |-> {}, ui |-> ui[p], pi |-> 0,
                                        err |-> "nil"])]
        /\ Goto(p, AfterPriv(s, ui[p], 0))
  /\ target' = [target EXCEPT ![p] = ""]
  /\ UNCHANGED <<userTable, stmt, curSchema, pre, open, again, overlapped>>

\* mutation: an error of grantPriv is kept and returned only when the
\* privilege loop of the user has ended
GrantPriv_Deferred(p) ==
  /\ pc[p] = "priv"
  /\ LET s == stmt[p]
         g == grantPriv(s, curSchema[p], s.Privs[pi[p]], s.Users[ui[p]],
                        userTable, dbTable, ui[p], pi[p])
         e == IF result[p] \in Errors THEN result[p] ELSE g.err
     IN /\ userTable' = g.user
        /\ dbTable' = g.db
        /\ log' = [log EXCEPT ![p] = @ \o g.stmts]
        /\ IF e = "nil"
           THEN Goto(p, AfterPriv(s, ui[p], pi[p]))
           ELSE IF pi[p] < Len(s.Privs)
                THEN Goto(p, [pc |-> "priv", ui |-> ui[p], pi |-> pi[p] + 1,
                              result |-> e])
                ELSE Fail(p, e)
  /\ UNCHANGED <<stmt, curSchema, target, pre, open, again, overlapped>>

\* one iteration of the privilege loop: grantPriv for s.Privs[pi]
GrantPriv(p) ==
  /\ pc[p] = "priv"
  /\ LET s == stmt[p]
         g == grantPriv(s, curSchema[p], s.Privs[pi[p]], s.Users[ui[p]],
                        userTable, dbTable, ui[p], pi[p])
     IN /\ userTable' = g.user
        /\ dbTable' = g.db
        /\ log' = [log EXCEPT ![p] = @ \o g.stmts]
        /\ IF g.err # "nil"
           THEN Fail(p, g.err)
           ELSE Goto(p, AfterPriv(s, ui[p], pi[p]))
  /\ UNCHANGED <<stmt, curSchema, target, pre, open, again, overlapped>>

\* Exec has returned; the session is ready for its next statement
Return(p) ==
  /\ pc[p] = "done"
  /\ stmt' = [stmt EXCEPT ![p] = NoStmt]
  /\ curSchema' = [curSchema EXCEPT ![p] = ""]
  /\ pre' = [pre EXCEPT ![p] = [user |-> <<>>, db |-> <<>>]]
  /\ log' = [log EXCEPT ![p] = <<>>]
  /\ open' = [open EXCEPT ![p] = {}]
  /\ again' = [again EXCEPT ![p] = FALSE]
  /\ Goto(p, [pc |-> "idle", ui |-> 1, pi |-> 1, result |-> "none"])
  /\ UNCHANGED <<userTable, dbTable, target, overlapped>>

\* Exec has returned success and the same statement is executed again, in
\* the same session with the same current schema
Repeat(p) ==
  /\ pc[p] = "done"
  /\ result[p] = "nil"
  /\ ~again[p]
  /\ again' = [again EXCEPT ![p] = TRUE]
  /\ Goto(p, AfterUser(stmt[p], 0))
  /\ target' = [target EXCEPT ![p] = ""]
  /\ pre' = [pre EXCEPT ![p] = [user |-> userTable, db |-> dbTable]]
  /\ log' = [log EXCEPT ![p] = <<>>]
  /\ open' = [open EXCEPT ![p] = {}]
  /\ UNCHANGED <<userTable, dbTable, stmt, curSchema, overlapped>>

\* ---------------------------------------------------------- specification
\* statements are executed one at a time, by session 1
Next ==
  \/ Call(1, Requests, CurSchemas)
  \/ UserCheck(1)
  \/ CheckDBPriv(1, {NoFault})
  \/ InitDBPrivEntry(1)
  \/ GrantPriv(1)
  \/ Return(1)

Spec == Init /\ [][Next]_vars

\* database-level statements for principals that all exist
RequestsDB ==
  [Privs : SeqsUpTo(PrivKinds, MaxPrivs),
   Level : {l \in Levels : l.Level = GrantLevelDB},
   Users : NonEmptySeqsUpTo({Alice, Bob}, MaxUsers)]

NextDB ==
  \/ Call(1, RequestsDB, CurSchemas)
  \/ UserCheck(1)
  \/ CheckDBPriv(1, {NoFault})
  \/ InitDBPrivEntry(1)
  \/ GrantPriv(1)
  \/ Return(1)

SpecDB == Init /\ [][NextDB]_vars

\* statements whose principal strings need not have the form name@host
NoAt == <<"alice">>                \* no separator
EmptyName == <<"@", "%">>          \* nothing before the separator
EmptyHost == <<"alice", "@">>      \* nothing after the separator
PrincipalStrings == {Alice, NoAt, EmptyName, EmptyHost}

RequestsStr ==
  [Privs : SeqsUpTo({SelectPriv, AllPriv}, MaxPrivs),
   Level : {[Level |-> GrantLevelGlobal, DBName |-> ""],
            [Level |-> GrantLevelDB, DBName |-> "db1"]},
   Users : NonEmptySeqsUpTo(PrincipalStrings, MaxUsers)]

NextStr ==
  \/ Call(1, RequestsStr, CurSchemas)
  \/ UserCheck(1)
  \/ CheckDBPriv(1, {NoFault})
  \/ InitDBPrivEntry(1)
  \/ GrantPriv(1)
  \/ Return(1)

SpecStr == Init /\ [][NextStr]_vars

\* database-level statements whose scan of mysql.db can fail at each of its
\* calls
RequestsFault ==
  [Privs : SeqsUpTo({SelectPriv}, MaxPrivs),
   Level : {[Level |-> GrantLevelDB, DBName |-> "db1"]},
   Users : NonEmptySeqsUpTo({Alice, Bob}, MaxUsers)]

NextScanFault ==
  \/ Call(1, RequestsFault, CurSchemas)
  \/ UserCheck(1)
  \/ CheckDBPriv(1, Faults)
  \/ InitDBPrivEntry(1)
  \/ GrantPriv(1)
  \/ Return(1)

SpecFault == Init /\ [][NextScanFault]_vars

\* statements at every level for principals that exist, each of which may be
\* executed a second time when it has succeeded
RequestsTwice ==
  [Privs : SeqsUpTo({AllPriv, SelectPriv}, MaxPrivs),
   Level : {[Level |-> GrantLevelGlobal, DBName |-> ""],
            [Level |-> GrantLevelDB, DBName |-> "db1"],
            [Level |-> GrantLevelTable, DBName |-> "db1"]},
   Users : {<<Alice>>, <<Alice, Bob>>}]

NextTwice ==
  \/ Call(1, RequestsTwice, CurSchemas)
  \/ UserCheck(1)
  \/ CheckDBPriv(1, {NoFault})
  \/ InitDBPrivEntry(1)
  \/ GrantPriv(1)
  \/ Repeat(1)
  \/ Return(1)

SpecTwice == Init /\ [][NextTwice]_vars

\* two sessions execute statements, their steps interleaved: grants to alice
\* at global and at database level, and a grant to carol of a privilege she
\* has already
RequestsConc ==
  [Privs : {<<SelectPriv>>, <<AllPriv>>},
   Level : {[Level |-> GrantLevelGlobal, DBName |-> ""],
            [Level |-> GrantLevelDB, DBName |-> "db1"]},
   Users : {<<Alice>>}]
  \cup [Privs : {<<SelectPriv>>},
        Level : {[Level |-> GrantLevelGlobal, DBName |-> ""]},
        Users : {<<Carol>>}]

NextConc ==
  \E p \in Sessions :
    \/ Call(p, RequestsConc, CurSchemas)
    \/ UserCheck(p)
    \/ CheckDBPriv(p, {NoFault})
    \/ InitDBPrivEntry(p)
    \/ GrantPriv(p)
    \/ Return(p)

SpecConc == Init /\ [][NextConc]_vars

\* ------------------------------------------------------------ properties
\* number of rows of tbl a filter selects
CountRows(tbl, where) ==
  Cardinality({i \in 1..Len(tbl) : Matches(tbl[i], where)})

\* the mysql.db key the statement of session p addresses for its user u
KeyOf(p, u) ==
  LET strs == Split(stmt[p].Users[u], "@")
  IN composeDBTableFilter(strs[1], strs[2],
                          getTargetSchema(stmt[p], curSchema[p]).db)

Returned(p) == pc[p] = "done"
CatalogAsBefore(p) == userTable = pre[p].user /\ dbTable = pre[p].db

\* C1: a database-level Exec inserts a row for a key only when the key had
\* no row on entry; the row is inserted all-'N', it is then the only row of
\* its key, and no statement of that Exec on that key precedes the INSERT
\* (every UPDATE of the key follows it).  After a successful Exec every
\* addressed key has exactly one row, inserted by this Exec if and only if it
\* was absent on entry; no key of mysql.db ever has two rows.
C1_InsertOnceBeforeUpdate ==
  /\ \A i, j \in 1..Len(dbTable) :
       (/\ dbTable[i].Host = dbTable[j].Host
        /\ dbTable[i].User = dbTable[j].User
        /\ dbTable[i].DB = dbTable[j].DB) => i = j
  /\ \A p \in Sessions :
       /\ \A j \in 1..Len(log[p]) :
            log[p][j].op = "INSERT" =>
              LET w == log[p][j].where
              IN /\ CountRows(pre[p].db, w) = 0
                 /\ CountRows(dbTable, w) = 1
                 /\ \A i \in 1..Len(log[p]) :
                      (i # j /\ log[p][i].where = w) =>
                         (i > j /\ log[p][i].op = "UPDATE")
                 /\ j = Len(log[p]) =>
                      \A r \in 1..Len(dbTable) :
                        Matches(dbTable[r], w) =>
                          dbTable[r].cols = DefaultCols(DBCols)
       /\ (/\ Returned(p) /\ result[p] = "nil"
           /\ stmt[p].Level.Level = GrantLevelDB) =>
            \A u \in 1..Len(stmt[p].Users) :
              /\ CountRows(dbTable, KeyOf(p, u)) = 1
              /\ CountRows(pre[p].db, KeyOf(p, u)) = 0 =>
                   \E j \in 1..Len(log[p]) :
                     log[p][j].op = "INSERT" /\ log[p][j].where = KeyOf(p, u)

\* the same principal twice in one statement: one INSERT, then the UPDATEs
C1_Witness ==
  /\ Returned(1) /\ result[1] = "nil"
  /\ stmt[1].Users = <<Alice, Alice>>
  /\ Len(log[1]) = 3
  /\ log[1][1].op = "INSERT"
  /\ log[1][2].op = "UPDATE" /\ log[1][3].op = "UPDATE"
  /\ CountRows(dbTable, KeyOf(1, 1)) = 1

\* C2 as stated: when Exec returns "Unknown user" the catalog is as it was
\* on entry.
C2_UnknownUserTouchesNothing ==
  \A p \in Sessions :
    (Returned(p) /\ result[p] = ErrUnknownUser) => CatalogAsBefore(p)

\* C2 amended: when Exec returns "Unknown user" for its i-th user, every
\* statement it executed belongs to a user before the i-th, none to the
\* i-th or a later one; for i = 1 the catalog is as it was on entry.
C2_UnknownUserTouchesNothingMore ==
  \A p \in Sessions :
    (Returned(p) /\ result[p] = ErrUnknownUser) =>
      /\ LET strs == Split(stmt[p].Users[ui[p]], "@")
         IN ~userExists(userTable, strs[1], strs[2])
      /\ \A j \in 1..Len(log[p]) : log[p][j].ui < ui[p]
      /\ ui[p] = 1 => CatalogAsBefore(p)

\* the second user is unknown after the first one was granted a privilege
C2_Witness ==
  /\ Returned(1) /\ result[1] = ErrUnknownUser
  /\ ui[1] = 2
  /\ ~CatalogAsBefore(1)

\* the catalog after the statements of a log that did not fail are applied,
\* in order, to the catalog cat
RECURSIVE Replay(_, _)
Replay(cat, l) ==
  IF l = <<>> THEN cat
  ELSE LET e == Head(l)
           next ==
             IF e.err # "nil" THEN cat
             ELSE IF e.op = "INSERT"
                  THEN [cat EXCEPT !.db = InsertExec(@, e.where.Host,
                                                     e.where.User, e.where.DB)]
                  ELSE LET as == LET cs == SetToSeq(e.cols)
                                 IN [i \in 1..Len(cs) |-> Assignment(cs[i])]
                       IN IF e.tbl = "user"
                          THEN [cat EXCEPT !.user =
                                  UpdateExec(@, UserCols, as, e.where).tbl]
                          ELSE [cat EXCEPT !.db =
                                  UpdateExec(@, DBCols, as, e.where).tbl]
       IN Replay(next, Tail(l))

\* a log entry belongs to the loop position (u, k) or a later one
AtOrAfter(e, u, k) == e.ui > u \/ (e.ui = u /\ e.pi >= k)

\* C3: when Exec returns an error at user i, privilege k, no statement of
\* that or a later loop position has changed the catalog, and the catalog is
\* the catalog on entry with every earlier statement applied: nothing is
\* rolled back.
C3_ErrorStopsKeepsEarlier ==
  \A p \in Sessions :
    (Returned(p) /\ result[p] \in Errors) =>
      /\ \A j \in 1..Len(log[p]) :
           (log[p][j].err = "nil") => ~AtOrAfter(log[p][j], ui[p], pi[p])
      /\ [user |-> userTable, db |-> dbTable] = Replay(pre[p], log[p])

\* the second privilege of a user fails after the first one changed a row
C3_Witness ==
  /\ Returned(1) /\ result[1] \in Errors
  /\ pi[1] = 2
  /\ ~CatalogAsBefore(1)
  /\ \E j \in 1..Len(log[1]) : log[1][j].ui = ui[1] /\ log[1][j].pi = 1

\* rows of the user table that the filter of principal user selects
UserRows(tbl, user) ==
  LET strs == Split(user, "@")
  IN {i \in 1..Len(tbl) :
        Matches(tbl[i], composeUserTableFilter(strs[1], strs[2]))}

\* C4: after a successful global-level Exec whose privileges include ALL,
\* every privilege column of every mysql.user row of every granted user is
\* 'Y', and every row of mysql.user has the Host and User it had on entry.
C4_GlobalAllSetsEveryColumn ==
  \A p \in Sessions :
    (/\ Returned(p) /\ result[p] = "nil"
     /\ stmt[p].Level.Level = GrantLevelGlobal
     /\ \E k \in 1..Len(stmt[p].Privs) : stmt[p].Privs[k] = AllPriv) =>
      /\ \A u \in 1..Len(stmt[p].Users) :
           \A i \in UserRows(userTable, stmt[p].Users[u]) :
             \A c \in UserCols : userTable[i].cols[c] = "Y"
      /\ Len(userTable) = Len(pre[p].user)
      /\ \A i \in 1..Len(userTable) :
           /\ userTable[i].Host = pre[p].user[i].Host
           /\ userTable[i].User = pre[p].user[i].User

\* GRANT ALL ON *.* to alice, whose row had an 'N' column
C4_Witness ==
  /\ Returned(1) /\ result[1] = "nil"
  /\ stmt[1].Level.Level = GrantLevelGlobal
  /\ stmt[1].Privs = <<AllPriv>>
  /\ stmt[1].Users = <<Alice>>
  /\ \E i \in UserRows(userTable, Alice) :
       /\ \E c \in UserCols : pre[1].user[i].cols[c] = "N"
       /\ \A c \in UserCols : userTable[i].cols[c] = "Y"

\* the table a level addresses
TableOf(cat, level) == IF level = GrantLevelGlobal THEN cat.user ELSE cat.db

\* C5: a step of the privilege loop that grants a named (non-ALL) privilege
\* at global or database level without error executes one UPDATE assigning
\* exactly the column of that privilege; in the addressed table every row
\* the filter selects has that column 'Y' and its other columns as before,
\* every other row is as before, and the other table is as before.
C5_NamedPrivilegeSetsOneColumn ==
  [][\A p \in Sessions :
       (/\ pc[p] = "priv"
        /\ pc'[p] # "priv" \/ pi'[p] # pi[p] \/ ui'[p] # ui[p]
        /\ result'[p] \notin Errors
        /\ stmt[p].Privs[pi[p]] # AllPriv
        /\ stmt[p].Level.Level \in {GrantLevelGlobal, GrantLevelDB}) =>
         LET lv == stmt[p].Level.Level
             col == Priv2UserCol[stmt[p].Privs[pi[p]]]
             old == TableOf([user |-> userTable, db |-> dbTable], lv)
             new == TableOf([user |-> userTable', db |-> dbTable'], lv)
             e == log'[p][Len(log'[p])]
         IN /\ Len(log'[p]) = Len(log[p]) + 1
            /\ e.op = "UPDATE" /\ e.cols = {col}
            /\ e.ui = ui[p] /\ e.pi = pi[p]
            /\ Len(new) = Len(old)
            /\ \A r \in 1..Len(old) :
                 new[r] = IF Matches(old[r], e.where)
                          THEN [old[r] EXCEPT !.cols[col] = "Y"]
                          ELSE old[r]
            /\ lv = GrantLevelGlobal => dbTable' = dbTable
            /\ lv = GrantLevelDB => userTable' = userTable]_vars

\* GRANT SELECT ON *.* to alice, whose row had Create_user_priv 'Y' and the
\* two other columns 'N': only Select_priv has changed
C5_Witness ==
  /\ Returned(1) /\ result[1] = "nil"
  /\ stmt[1].Level.Level = GrantLevelGlobal
  /\ stmt[1].Privs = <<SelectPriv>>
  /\ stmt[1].Users = <<Alice>>
  /\ \E i \in UserRows(userTable, Alice) :
       /\ pre[1].user[i].cols =
            [c \in UserCols |-> IF c = "Create_user_priv" THEN "Y" ELSE "N"]
       /\ userTable[i].cols =
            [c \in UserCols |-> IF c = "Insert_priv" THEN "N" ELSE "Y"]

\* C6: while and after Exec runs a statement whose level is not the database
\* level, it has executed no INSERT and both tables have the number of rows
\* they had on entry.
C6_OnlyDBLevelInserts ==
  \A p \in Sessions :
    (pc[p] # "idle" /\ stmt[p].Level.Level # GrantLevelDB) =>
      /\ Len(userTable) = Len(pre[p].user)
      /\ Len(dbTable) = Len(pre[p].db)
      /\ \A j \in 1..Len(log[p]) : log[p][j].op # "INSERT"

\* a global-level statement has returned after updating a row
C6_Witness ==
  /\ Returned(1)
  /\ stmt[1].Level.Level = GrantLevelGlobal
  /\ ~CatalogAsBefore(1)
  /\ Len(userTable) = Len(pre[1].user) /\ Len(dbTable) = Len(pre[1].db)

\* the user, as split by Exec, has a row in the user table tbl
Exists(tbl, user) ==
  LET strs == Split(user, "@") IN userExists(tbl, strs[1], strs[2])

NoSchemaGiven(p) ==
  /\ stmt[p].Level.Level = GrantLevelDB
  /\ stmt[p].Level.DBName = ""
  /\ curSchema[p] = ""

\* C8 as stated: every database-level Exec without a database name and with
\* an empty current schema returns the missing-database error.
C8_MissingSchemaAlways ==
  \A p \in Sessions :
    (Returned(p) /\ NoSchemaGiven(p)) => result[p] = ErrMissDB

\* C8 amended: such an Exec returns the missing-database error when its
\* first user exists (the user check comes first); it fails at the first
\* user and executes no statement.
C8_MissingSchemaAfterUserCheck ==
  \A p \in Sessions :
    (/\ Returned(p) /\ NoSchemaGiven(p)
     /\ Exists(pre[p].user, stmt[p].Users[1])) =>
      /\ result[p] = ErrMissDB
      /\ ui[p] = 1
      /\ log[p] = <<>>
      /\ CatalogAsBefore(p)

C8_Witness ==
  /\ Returned(1) /\ NoSchemaGiven(1)
  /\ stmt[1].Users = <<Alice>>
  /\ stmt[1].Privs = <<SelectPriv>>
  /\ result[1] = ErrMissDB

\* the database name the statement of session p resolves to
ResolvedName(p) ==
  IF stmt[p].Level.DBName = "" THEN curSchema[p] ELSE stmt[p].Level.DBName

\* C9: a database-level Exec whose first user exists and whose resolved
\* database name is not a schema returns the unknown-schema error at that
\* user; it has executed no statement and the catalog is as it was on entry.
C9_UnknownSchemaTouchesNothing ==
  \A p \in Sessions :
    (/\ Returned(p)
     /\ stmt[p].Level.Level = GrantLevelDB
     /\ ResolvedName(p) # ""
     /\ \A d \in Schemas : d.Name.L # Lower(ResolvedName(p))
     /\ Exists(pre[p].user, stmt[p].Users[1])) =>
      /\ result[p] = ErrUnknownSchema
      /\ ui[p] = 1
      /\ log[p] = <<>>
      /\ CatalogAsBefore(p)

\* the name comes from the current schema of the session
C9_Witness ==
  /\ Returned(1) /\ result[1] = ErrUnknownSchema
  /\ stmt[1].Level.Level = GrantLevelDB
  /\ stmt[1].Level.DBName = "" /\ curSchema[1] = "nodb"
  /\ stmt[1].Users = <<Alice>>
  /\ stmt[1].Privs = <<AllPriv>>

\* a privilege with a column in Priv2UserCol that is no database-level
\* privilege
GlobalOnly(k) ==
  /\ k \in DOMAIN Priv2UserCol
  /\ \A i \in 1..Len(AllDBPrivs) : AllDBPrivs[i] # k

\* C10: a database-level Exec that reaches a privilege which is global-only
\* returns "Unknown priv", and no UPDATE of mysql.db is executed for that
\* privilege.
C10_GlobalOnlyKindRejectedAtDBLevel ==
  \A p \in Sessions :
    /\ \A j \in 1..Len(log[p]) :
         (log[p][j].op = "UPDATE" /\ log[p][j].tbl = "db") =>
           ~GlobalOnly(stmt[p].Privs[log[p][j].pi])
    /\ (/\ Returned(p)
        /\ stmt[p].Level.Level = GrantLevelDB
        /\ result[p] \in Errors
        /\ \E j \in 1..Len(log[p]) : log[p][j].ui = ui[p]
        /\ GlobalOnly(stmt[p].Privs[pi[p]])) =>
         result[p] = ErrUnknownPriv

\* C11: every UPDATE that Exec executes for ALL at database level assigns
\* exactly the columns of the database privileges, none of them the column of
\* a global-only privilege, and every row its filter selects has all of them
\* 'Y'; every UPDATE for ALL at global level assigns every column of the
\* column map; the two column sets differ.
C11_AllExpansionPerLevel ==
  /\ UserCols # DBCols
  /\ \A p \in Sessions :
       \A j \in 1..Len(log[p]) :
         LET e == log[p][j]
         IN (e.op = "UPDATE" /\ stmt[p].Privs[e.pi] = AllPriv) =>
              /\ e.tbl = "db" =>
                   /\ e.cols = DBCols
                   /\ \A k \in DOMAIN Priv2UserCol :
                        GlobalOnly(k) => Priv2UserCol[k] \notin e.cols
                   /\ e.err = "nil"
                   /\ \A i \in 1..Len(dbTable) :
                        Matches(dbTable[i], e.where) =>
                          \A c \in DBCols : dbTable[i].cols[c] = "Y"
              /\ e.tbl = "user" => e.cols = UserCols

\* GRANT ALL ON db1.* to alice has run: her row of db1 has every database
\* column 'Y', and a global-only privilege exists
C11_Witness ==
  /\ Returned(1) /\ result[1] = "nil"
  /\ stmt[1].Level.Level = GrantLevelDB
  /\ stmt[1].Privs = <<AllPriv>>
  /\ stmt[1].Users = <<Alice>>
  /\ \E k \in DOMAIN Priv2UserCol : GlobalOnly(k)
  /\ \E j \in 1..Len(log[1]) :
       /\ log[1][j].op = "UPDATE" /\ log[1][j].tbl = "db"
       /\ \E i \in 1..Len(dbTable) : Matches(dbTable[i], log[1][j].where)

\* a principal string that splits on "@" into exactly two non-empty parts
WellFormed(user) ==
  LET strs == Split(user, "@")
  IN Len(strs) = 2 /\ strs[1] # <<>> /\ strs[2] # <<>>

\* C12: Exec never ends in an index fault on the parts of a principal
\* string, and an Exec whose first principal string does not split into two
\* non-empty parts returns an error, having executed no statement and with
\* the catalog as it was on entry.
C12_MalformedPrincipalRejected ==
  \A p \in Sessions :
    /\ result[p] # PanicIndex
    /\ (Returned(p) /\ ~WellFormed(stmt[p].Users[1])) =>
         /\ result[p] \in Errors
         /\ log[p] = <<>>
         /\ CatalogAsBefore(p)

\* the level of the statement of session p is none of global, database, table
UnknownLevel(p) ==
  stmt[p].Level.Level \notin {GrantLevelGlobal, GrantLevelDB, GrantLevelTable}

\* C13 as stated: every Exec on existing users whose level is none of global,
\* database and table returns "Unknown grant level" and leaves the catalog
\* as it was on entry, whatever its privilege list.
C13_UnknownLevelAlways ==
  \A p \in Sessions :
    (/\ Returned(p)
     /\ UnknownLevel(p)
     /\ \A u \in 1..Len(stmt[p].Users) : Exists(pre[p].user, stmt[p].Users[u])) =>
      /\ result[p] = ErrUnknownLevel
      /\ CatalogAsBefore(p)

\* C13: an Exec whose level is none of global, database and table executes
\* no statement and leaves the catalog as it was on entry; with a first user
\* that exists and a non-empty privilege list it returns "Unknown grant
\* level" at the first privilege of the first user; with users that all
\* exist and an empty privilege list it returns success.
C13_UnknownLevelWithPrivileges ==
  \A p \in Sessions :
    (pc[p] # "idle" /\ UnknownLevel(p)) =>
      /\ log[p] = <<>>
      /\ CatalogAsBefore(p)
      /\ (/\ Returned(p)
          /\ Exists(pre[p].user, stmt[p].Users[1])
          /\ stmt[p].Privs # <<>>) =>
           (result[p] = ErrUnknownLevel /\ ui[p] = 1 /\ pi[p] = 1)
      /\ (/\ Returned(p)
          /\ \A u \in 1..Len(stmt[p].Users) :
               Exists(pre[p].user, stmt[p].Users[u])
          /\ stmt[p].Privs = <<>>) =>
           result[p] = "nil"

\* GRANT SELECT at an unknown level to alice has returned the level error
C13_Witness ==
  /\ Returned(1)
  /\ UnknownLevel(1)
  /\ stmt[1].Privs = <<SelectPriv>>
  /\ stmt[1].Users = <<Alice>>
  /\ result[1] = ErrUnknownLevel
  /\ CatalogAsBefore(1)

\* the row is of user u of the statement of session p
RowOfUser(p, u, row) ==
  LET strs == Split(stmt[p].Users[u], "@")
  IN row.User = strs[1] /\ row.Host = strs[2]

\* the row of mysql.db is of user u and of the database the statement of
\* session p resolves to
RowOfUserAndDB(p, u, row) ==
  /\ RowOfUser(p, u, row)
  /\ row.DB = getTargetSchema(stmt[p], curSchema[p]).db

\* C15: while Exec runs and after it, at global level mysql.db is as on entry
\* and every row of mysql.user that is of none of the statement's users is as
\* on entry; at database level mysql.user is as on entry, every row of
\* mysql.db that is not of one of the statement's users and of the resolved
\* database is as on entry, and every row added is of such a user and of that
\* database; at any other level both tables are as on entry.  No row is
\* removed and no row changes its Host, User or DB.
C15_OnlyFilteredRowsWritten ==
  \A p \in Sessions :
    pc[p] # "idle" =>
      LET users == 1..Len(stmt[p].Users)
      IN /\ Len(userTable) = Len(pre[p].user)
         /\ Len(dbTable) >= Len(pre[p].db)
         /\ \A i \in 1..Len(pre[p].user) :
              /\ userTable[i].Host = pre[p].user[i].Host
              /\ userTable[i].User = pre[p].user[i].User
              /\ (\/ stmt[p].Level.Level # GrantLevelGlobal
                  \/ \A u \in users : ~RowOfUser(p, u, pre[p].user[i])) =>
                   userTable[i] = pre[p].user[i]
         /\ \A i \in 1..Len(pre[p].db) :
              /\ dbTable[i].Host = pre[p].db[i].Host
              /\ dbTable[i].User = pre[p].db[i].User
              /\ dbTable[i].DB = pre[p].db[i].DB
              /\ (\/ stmt[p].Level.Level # GrantLevelDB
                  \/ \A u \in users : ~RowOfUserAndDB(p, u, pre[p].db[i])) =>
                   dbTable[i] = pre[p].db[i]
         /\ \A i \in (Len(pre[p].db) + 1)..Len(dbTable) :
              /\ stmt[p].Level.Level = GrantLevelDB
              /\ \E u \in users : RowOfUserAndDB(p, u, dbTable[i])

\* GRANT ALL ON db1.* to alice has written her row of db1, and her row of
\* another database is as it was
C15_Witness ==
  /\ Returned(1) /\ result[1] = "nil"
  /\ stmt[1].Level.Level = GrantLevelDB
  /\ stmt[1].Privs = <<AllPriv>>
  /\ stmt[1].Users = <<Alice>>
  /\ \E i \in 1..Len(dbTable) :
       /\ RowOfUserAndDB(1, 1, dbTable[i])
       /\ \A c \in DBCols : dbTable[i].cols[c] = "Y"
  /\ \E i \in 1..Len(pre[1].db) :
       /\ RowOfUser(1, 1, pre[1].db[i])
       /\ ~RowOfUserAndDB(1, 1, pre[1].db[i])
       /\ \E c \in DBCols : pre[1].db[i].cols[c] = "N"
       /\ dbTable[i] = pre[1].db[i]

\* session p runs a database-level statement whose first user exists, whose
\* database resolves, and whose first user had no row of that database in
\* mysql.db on entry
FirstEntryAbsent(p) ==
  /\ stmt[p].Level.Level = GrantLevelDB
  /\ Exists(pre[p].user, stmt[p].Users[1])
  /\ getTargetSchema(stmt[p], curSchema[p]).err = "nil"
  /\ \A i \in 1..Len(pre[p].db) : ~RowOfUserAndDB(p, 1, pre[p].db[i])

\* C18: after a database-level Exec whose first user exists and had no row
\* of the resolved database, and whose privilege list is empty or starts with
\* a privilege that is neither ALL nor in the column map, mysql.db holds
\* exactly one row of that user and database, added by this Exec, with every
\* column 'N'; with the unmapped first privilege Exec has returned "Unknown
\* priv" at the first privilege of the first user (the INSERT is the only
\* statement it executed), with the empty list and users that all exist it
\* has returned success.
C18_InsertPrecedesValidation ==
  \A p \in Sessions :
    (/\ Returned(p)
     /\ FirstEntryAbsent(p)
     /\ \/ stmt[p].Privs = <<>>
        \/ stmt[p].Privs[1] \notin (DOMAIN Priv2UserCol) \cup {AllPriv}) =>
      /\ \E i \in (Len(pre[p].db) + 1)..Len(dbTable) :
           /\ RowOfUserAndDB(p, 1, dbTable[i])
           /\ dbTable[i].cols = DefaultCols(DBCols)
           /\ \A h \in 1..Len(dbTable) :
                RowOfUserAndDB(p, 1, dbTable[h]) => h = i
      /\ stmt[p].Privs # <<>> =>
           /\ result[p] = ErrUnknownPriv /\ ui[p] = 1 /\ pi[p] = 1
           /\ Len(log[p]) = 1 /\ log[p][1].op = "INSERT"
      /\ (/\ stmt[p].Privs = <<>>
          /\ \A u \in 1..Len(stmt[p].Users) :
               Exists(pre[p].user, stmt[p].Users[u])) =>
           result[p] = "nil"

\* GRANT of an unmapped privilege ON db1.* to alice has returned "Unknown
\* priv" and her all-'N' row of db1 is in mysql.db
C18_Witness ==
  /\ Returned(1)
  /\ FirstEntryAbsent(1)
  /\ stmt[1].Privs = <<OtherPriv>>
  /\ stmt[1].Users = <<Alice>>
  /\ result[1] = ErrUnknownPriv
  /\ Len(dbTable) = Len(pre[1].db) + 1
  /\ RowOfUserAndDB(1, 1, dbTable[Len(dbTable)])
  /\ dbTable[Len(dbTable)].cols = DefaultCols(DBCols)

\* C17: on every return path of dbUserExists (the table plan fails, the
\* filter plan fails, Next fails, a row is found, no row is found) no plan
\* obtained inside the call is open after it returns.
C17_ScanReleasesPlans ==
  \A p \in Sessions : open[p] = {}

\* C16: when Exec has returned success and the same statement is executed
\* again right after it, the second Exec returns success too and both tables
\* are, row for row and column for column, as the first Exec left them.
C16_SecondRunChangesNothing ==
  \A p \in Sessions :
    again[p] =>
      /\ CatalogAsBefore(p)
      /\ \A j \in 1..Len(log[p]) : log[p][j].op # "INSERT"
      /\ Returned(p) => result[p] = "nil"

\* GRANT ALL ON db1.* to alice and bob, who had no row of db1, has run twice
C16_Witness ==
  /\ Returned(1) /\ again[1]
  /\ stmt[1].Level = [Level |-> GrantLevelDB, DBName |-> "db1"]
  /\ stmt[1].Privs = <<AllPriv>>
  /\ stmt[1].Users = <<Alice, Bob>>
  /\ Len(log[1]) = 2
  /\ \A u \in 1..2 :
       \E i \in 3..Len(dbTable) :
         /\ RowOfUserAndDB(1, u, dbTable[i])
         /\ \A c \in DBCols : dbTable[i].cols[c] = "Y"

\* rows i and j of mysql.db have the same (Host, User, DB)
SameKey(i, j) ==
  /\ dbTable[i].Host = dbTable[j].Host
  /\ dbTable[i].User = dbTable[j].User
  /\ dbTable[i].DB = dbTable[j].DB

\* C14: as long as no Exec was entered while another session was inside
\* Exec, no two rows of mysql.db have the same (Host, User, DB); in any case
\* a key has at most as many rows as there are sessions.
C14_SerializedAtMostOneRow ==
  /\ ~overlapped =>
       \A i, j \in 1..Len(dbTable) : SameKey(i, j) => i = j
  /\ \A i \in 1..Len(dbTable) :
       Cardinality({j \in 1..Len(dbTable) : SameKey(i, j)})
         <= Cardinality(Sessions)

\* two interleaved database-level Execs for alice and db1 have both inserted:
\* mysql.db holds two rows of that key
C14_Witness ==
  /\ overlapped
  /\ Returned(1) /\ Returned(2)
  /\ \A p \in Sessions :
       /\ stmt[p].Level.Level = GrantLevelDB
       /\ stmt[p].Users = <<Alice>>
       /\ \E j \in 1..Len(log[p]) : log[p][j].op = "INSERT"
  /\ \E i, j \in 1..Len(dbTable) :
       /\ i # j
       /\ SameKey(i, j)
       /\ RowOfUserAndDB(1, 1, dbTable[i])

\* in a step from tbl to next no row is removed, every row keeps its place
\* and its key columns (every added row comes after them), and a column of a
\* row changes only from 'N' to 'Y'
Monotone(tbl, next, keys) ==
  /\ Len(next) >= Len(tbl)
  /\ \A i \in 1..Len(tbl) :
       /\ \A f \in keys : next[i][f] = tbl[i][f]
       /\ DOMAIN next[i].cols = DOMAIN tbl[i].cols
       /\ \A c \in DOMAIN tbl[i].cols :
            next[i].cols[c] # tbl[i].cols[c] =>
              (tbl[i].cols[c] = "N" /\ next[i].cols[c] = "Y")

\* C19: in every step of every session, interleaved or not, no row of
\* mysql.user or mysql.db is removed or changes its key, every row added is
\* an additional row appended after the existing ones, and a privilege
\* column changes only from 'N' to 'Y'; as long as no Exec was entered while
\* another session was inside Exec, the key of an added row had no row.
C19_GrantsAreMonotone ==
  [][/\ Monotone(userTable, userTable', {"Host", "User"})
     /\ Monotone(dbTable, dbTable', {"Host", "User", "DB"})
     /\ ~overlapped' =>
          \A i \in (Len(dbTable) + 1)..Len(dbTable') :
            \A j \in 1..Len(dbTable) :
              \E f \in {"Host", "User", "DB"} : dbTable'[i][f] # dbTable[j][f]
    ]_vars

\* grants have run in both sessions: a column of alice's row of mysql.user
\* went from 'N' to 'Y', rows were added to mysql.db, carol's privilege was
\* granted again and is still 'Y'
C19_Witness ==
  /\ \E c \in UserCols :
       InitUserTable[1].cols[c] = "N" /\ userTable[1].cols[c] = "Y"
  /\ Len(dbTable) > Len(InitDBTable)
  /\ \E p \in Sessions :
       /\ Returned(p) /\ result[p] = "nil"
       /\ stmt[p].Users = <<Carol>>
       /\ Len(log[p]) = 1
       /\ \A i \in 1..Len(userTable) :
            Matches(userTable[i], log[p][1].where) =>
              \A c \in log[p][1].cols : userTable[i].cols[c] = "Y"

====
